---------------------------- MODULE Spec2Model ----------------------------
(***************************************************************************)
(* A model of the WebDAV client of hearuphill/webdav-ts                    *)
(* (src/src/webdav-client.test.ts, class WebDAVClient and its helpers).     *)
(*                                                                         *)
(* Text is modelled as a sequence of tokens.  A token is one character of  *)
(* a path ("/", "d", "x"), or an atom standing for a run of characters     *)
(* that the code never splits: "https://" (a scheme and its two slashes),  *)
(* "example.com" (a host label), a word of a status line or of an error    *)
(* message, a header value.                                                *)
(***************************************************************************)
EXTENDS Integers, Sequences, FiniteSets, TLC

VARIABLES
    base,           \* this.base: the parsed base URL, pathname ending in "/"
    basePath,       \* this.basePath
    authHeader,     \* this.authHeader (<<>> when undefined)
    customHeaders,  \* this.customHeaders: an object, as a sequence of entries
    arg,            \* the path handed to a path helper
    stage,          \* which path helper has run last
    canon,          \* normalizePath(arg)
    recanon,        \* normalizePath(normalizePath(arg))
    forms,          \* the canonical paths of the three spellings of arg
    reqURL,         \* resolveRequestURL(arg)
    targetCanon,    \* normalizePath(resolveRequestURL(arg).toString())
    pc,             \* "idle", "awaiting" (a fetch is in flight) or "done"
    call,           \* the public operation invoked and its arguments
    sent,           \* the requests handed to fetch by the current call
    response,       \* how the fetch of the current call settled
    outcome,        \* how the promise of the current call settled
    parseInput,     \* the multi-status document handed to parseMultiStatus
    parseDone,      \* whether parseMultiStatus has returned
    parseOutput     \* parseMultiStatus(parseInput)

pathVars == <<arg, stage, canon, recanon, forms, reqURL, targetCanon>>
configVars == <<base, basePath, authHeader, customHeaders>>
opVars == <<pc, call, sent, response, outcome>>
parseVars == <<parseInput, parseDone, parseOutput>>
vars == <<configVars, pathVars, opVars, parseVars>>

----------------------------------------------------------------------------
(* Bounds *)

\* longest path (in characters) handed to the path helpers
MaxLen == 5

----------------------------------------------------------------------------
(* Text *)

Slash == "/"
Scheme == "https://"
Host == "example.com"

\* the characters a path is written with: the separator and two letters;
\* "d" is also the name of the base's path segment
Chars == {Slash, "d", "x"}

RECURSIVE StringsOfLen(_, _)
StringsOfLen(alphabet, n) ==
    IF n = 0 THEN {<<>>}
    ELSE {Append(s, c) : s \in StringsOfLen(alphabet, n - 1), c \in alphabet}

StringsUpTo(alphabet, n) == UNION {StringsOfLen(alphabet, k) : k \in 0..n}

\* String.prototype.startsWith
StartsWith(s, prefix) ==
    /\ Len(prefix) <= Len(s)
    /\ SubSeq(s, 1, Len(prefix)) = prefix

\* String.prototype.slice(n), 0 <= n
Slice(s, n) == IF n >= Len(s) THEN <<>> ELSE SubSeq(s, n + 1, Len(s))

\* s.replace(/\/+$/, "")
RECURSIVE StripTrailingSlashes(_)
StripTrailingSlashes(s) ==
    IF s # <<>> /\ s[Len(s)] = Slash
    THEN StripTrailingSlashes(SubSeq(s, 1, Len(s) - 1))
    ELSE s

RECURSIVE StripLeadingSlashes(_)
StripLeadingSlashes(s) ==
    IF s # <<>> /\ s[1] = Slash THEN StripLeadingSlashes(Tail(s)) ELSE s

\* the index of the first "/" of s, or Len(s) + 1
RECURSIVE FirstSlash(_, _)
FirstSlash(s, i) ==
    IF i > Len(s) \/ s[i] = Slash THEN i ELSE FirstSlash(s, i + 1)

\* the index of the last "/" of s, or 0
RECURSIVE LastSlash(_, _)
LastSlash(s, i) ==
    IF i = 0 \/ s[i] = Slash THEN i ELSE LastSlash(s, i - 1)

----------------------------------------------------------------------------
(* The URL class of the platform, for https URLs written with Chars *)

InvalidURL == [ok |-> FALSE, host |-> <<>>, pathname |-> <<>>]

\* what follows the slashes of "scheme://": a host up to the first "/", then
\* the path; a special scheme has no URL with an empty host
ParseAuthority(s) ==
    LET i == FirstSlash(s, 1)
        host == SubSeq(s, 1, i - 1)
        rest == Slice(s, i - 1)
    IN IF host = <<>> THEN InvalidURL
       ELSE [ok |-> TRUE, host |-> host,
             pathname |-> IF rest = <<>> THEN <<Slash>> ELSE rest]

\* /^[a-zA-Z][a-zA-Z\d+.-]*:/.test(path): the only text with a ":" is Scheme
IsAbsoluteURI(path) == path # <<>> /\ path[1] = Scheme

\* new URL(input): slashes after "https://" are skipped before the host
ParseAbsolute(input) == ParseAuthority(StripLeadingSlashes(Tail(input)))

\* new URL(input, baseURL), baseURL an https URL
NewURL(input, baseURL) ==
    IF IsAbsoluteURI(input) THEN ParseAbsolute(input)
    ELSE IF input = <<>> THEN baseURL
    ELSE IF input[1] = Slash
         THEN IF Len(input) >= 2 /\ input[2] = Slash
              THEN ParseAuthority(StripLeadingSlashes(input))
              ELSE [ok |-> TRUE, host |-> baseURL.host, pathname |-> input]
    ELSE [ok |-> TRUE, host |-> baseURL.host,
          pathname |-> SubSeq(baseURL.pathname, 1,
                              LastSlash(baseURL.pathname, Len(baseURL.pathname)))
                       \o input]

\* url.origin, as the base URL that new URL(path, origin) resolves against
Origin(url) == [ok |-> TRUE, host |-> url.host, pathname |-> <<Slash>>]

\* url.toString()
URLToString(url) == <<Scheme>> \o url.host \o url.pathname

----------------------------------------------------------------------------
(* The constructor *)

\* baseURL options: https://example.com, with and without a path and a
\* trailing slash
BaseURLs ==
    { <<Scheme, Host>>,
      <<Scheme, Host, Slash>>,
      <<Scheme, Host, Slash, "d">>,
      <<Scheme, Host, Slash, "d", Slash>> }

\* this.base
ConstructBase(baseURL) ==
    LET parsed == ParseAbsolute(baseURL)
    IN IF parsed.pathname[Len(parsed.pathname)] = Slash THEN parsed
       ELSE [parsed EXCEPT !.pathname = Append(@, Slash)]

\* this.basePath
ConstructBasePath(url) ==
    LET stripped == StripTrailingSlashes(url.pathname)
    IN IF stripped = <<>> THEN <<Slash>> ELSE stripped

----------------------------------------------------------------------------
(* Path Resolver *)

resolveURL(path) ==
    IF IsAbsoluteURI(path) THEN ParseAbsolute(path)
    ELSE IF StartsWith(path, <<Slash>>) THEN NewURL(path, Origin(base))
    ELSE NewURL(path, base)

resolveRequestURL(path) ==
    IF IsAbsoluteURI(path) THEN ParseAbsolute(path)
    ELSE NewURL(IF StartsWith(path, <<Slash>>) THEN Slice(path, 1) ELSE path,
                base)

\* the catch branch of normalizePath
normalizePathFallback(path) ==
    LET ensured == IF StartsWith(path, <<Slash>>) THEN path
                   ELSE <<Slash>> \o path
        trimmed == StripTrailingSlashes(ensured)
    IN IF trimmed = <<>> THEN <<Slash>> ELSE trimmed

normalizePath(path) ==
    LET url == resolveURL(path)
    IN IF ~url.ok THEN normalizePathFallback(path)
       ELSE LET stripBase ==
                    /\ basePath # <<Slash>>
                    /\ \/ url.pathname = basePath
                       \/ StartsWith(url.pathname, Append(basePath, Slash))
                unbased == IF stripBase
                           THEN Slice(url.pathname, Len(basePath))
                           ELSE url.pathname
                pathname == StripTrailingSlashes(unbased)
            IN IF pathname = <<>> THEN <<Slash>>
               ELSE IF ~StartsWith(pathname, <<Slash>>)
                    THEN <<Slash>> \o pathname
               ELSE pathname

----------------------------------------------------------------------------
(* Objects of headers.  A JavaScript object is a sequence of entries with  *)
(* distinct keys, in insertion order; keys are case-sensitive.             *)

HeaderNames ==
    { "Authorization", "authorization", "Content-Type", "content-type",
      "Depth", "Destination", "destination", "Overwrite", "overwrite",
      "X-Trace", "x-trace" }

\* the name a header has on the wire: HTTP header names are case-insensitive
\* and the platform's Headers class lower-cases them
LowerName(name) ==
    CASE name \in {"Authorization", "authorization"} -> "authorization"
      [] name \in {"Content-Type", "content-type"} -> "content-type"
      [] name = "Depth" -> "depth"
      [] name \in {"Destination", "destination"} -> "destination"
      [] name \in {"Overwrite", "overwrite"} -> "overwrite"
      [] name \in {"X-Trace", "x-trace"} -> "x-trace"

HasKey(object, key) == \E i \in 1..Len(object) : object[i].name = key

\* object[key] = value
SetKey(object, key, value) ==
    IF HasKey(object, key)
    THEN [i \in 1..Len(object) |->
             IF object[i].name = key
             THEN [name |-> key, value |-> value]
             ELSE object[i]]
    ELSE Append(object, [name |-> key, value |-> value])

\* { ...target, ...source }
RECURSIVE Spread(_, _)
Spread(target, source) ==
    IF source = <<>> THEN target
    ELSE Spread(SetKey(target, source[1].name, source[1].value), Tail(source))

\* new Headers(object).get(name): the values of every entry whose name is
\* `name` in any case, in insertion order (the class joins them with ", ")
RECURSIVE HeadersGet(_, _)
HeadersGet(object, name) ==
    IF object = <<>> THEN <<>>
    ELSE (IF LowerName(object[1].name) = name
          THEN <<object[1].value>> ELSE <<>>)
         \o HeadersGet(Tail(object), name)

\* `Basic ${toBase64("user:pass")}`
BasicAuth == <<"Basic", "dXNlcjpwYXNz">>

buildHeaders(additional) ==
    LET headers == Spread(Spread(<<>>, customHeaders), additional)
    IN IF authHeader # <<>> /\ ~HasKey(headers, "Authorization")
       THEN SetKey(headers, "Authorization", authHeader)
       ELSE headers

\* the fetch call of request(), or the TypeError of new URL
RequestThrows == [thrown |-> TRUE, method |-> "", url |-> <<>>,
                  headers |-> <<>>, body |-> <<>>]

request(method, path, headers, body) ==
    LET url == resolveRequestURL(path)
    IN IF ~url.ok THEN RequestThrows
       ELSE [thrown |-> FALSE, method |-> method, url |-> URLToString(url),
             headers |-> buildHeaders(headers), body |-> body]
----------------------------------------------------------------------------
(* Multi-status documents.  A document is the sequence of its response     *)
(* elements; a response holds an href and propstat blocks; a propstat      *)
(* holds a status line (a sequence of words) and a prop block, itself a    *)
(* sequence of property elements [tag, content].                           *)

Element(tag, content) == [tag |-> tag, content |-> content]

\* getTagContent(xml, tag) on a block of elements: the content of the first
\* element named tag, or the empty text
RECURSIVE getTagContent(_, _)
getTagContent(elements, tag) ==
    IF elements = <<>> THEN <<>>
    ELSE IF elements[1].tag = tag THEN elements[1].content
    ELSE getTagContent(Tail(elements), tag)

\* A tag of markup: what stands between its "<" and its ">", as the
\* sequence of the pieces of the name (a prefix, ":", a local name, itself
\* in pieces where it holds a searched name), and its form: "empty" for
\* <name/>, "start" for <name>, "end" for </name>
Tag(name, form) == [name |-> name, form |-> form]

\* a piece of a name as the case-insensitive expression reads it
PieceToLowerCase(piece) ==
    IF piece \in {"collection", "Collection", "COLLECTION"} THEN "collection"
    ELSE piece

\* /<[^:>]*:?TAG[^>]*(?:\/?>|>...)/i on one tag: TAG stands somewhere in
\* the name, after pieces that hold no ":" but for one right before it
TagMatches(t, tag) ==
    \E p \in 1..Len(t.name) :
        /\ PieceToLowerCase(t.name[p]) = tag
        /\ \A j \in 1..(p - 1) : t.name[j] = ":" => j = p - 1

\* hasTag(xml, tag) on markup: false on the empty text, else whether the
\* expression matches at some tag of it
hasTag(xml, tag) ==
    /\ xml # <<>>
    /\ \E i \in 1..Len(xml) : TagMatches(xml[i], tag)

\* status.includes(" 200 "): "200" is a word with a word on either side
Includes200(status) == \E i \in 2..(Len(status) - 1) : status[i] = "200"

Digits == <<"0", "1", "2", "3", "4", "5", "6", "7", "8", "9">>

DigitValue(c) == (CHOOSE i \in 1..10 : Digits[i] = c) - 1

IsDigit(c) == \E i \in 1..10 : Digits[i] = c

\* the value of the longest prefix of digits of s after position i, given
\* the value acc of the digits before it
RECURSIVE ParseDigits(_, _, _)
ParseDigits(s, i, acc) ==
    IF i <= Len(s) /\ IsDigit(s[i])
    THEN ParseDigits(s, i + 1, 10 * acc + DigitValue(s[i]))
    ELSE acc

\* Number.parseInt(value, 10), falling back to 0 when the result is NaN
safeParseInteger(value) ==
    LET signed == value # <<>> /\ value[1] \in {"-", "+"}
        first == IF signed THEN 2 ELSE 1
        magnitude == ParseDigits(value, first, 0)
    IN IF first > Len(value) \/ ~IsDigit(value[first]) THEN 0
       ELSE IF signed /\ value[1] = "-" THEN 0 - magnitude
       ELSE magnitude

\* decodeURIComponent(segment), or segment when it throws on a stray "%"
decodeSegment(segment) ==
    IF \E i \in 1..Len(segment) : segment[i] = "%" THEN segment
    ELSE [i \in 1..Len(segment) |->
             IF segment[i] = "%2F" THEN Slash ELSE segment[i]]

\* normalizedPath.split("/").filter(Boolean), last element, or "/"
BasenameSegment(normalizedPath) ==
    LET trimmed == StripTrailingSlashes(normalizedPath)
    IN IF trimmed = <<>> THEN <<Slash>>
       ELSE Slice(trimmed, LastSlash(trimmed, Len(trimmed)))

\* the prop block of the first propstat whose status is absent or holds
\* " 200 " and whose prop block is not empty; the empty block when none is
RECURSIVE SelectPropAnyStatus(_)
\* a selection that takes the first non-empty prop block, whatever the status
SelectPropAnyStatus(propstats) ==
    IF propstats = <<>> THEN <<>>
    ELSE IF propstats[1].prop # <<>> THEN propstats[1].prop
    ELSE SelectPropAnyStatus(Tail(propstats))

RECURSIVE SelectProp(_)
SelectProp(propstats) ==
    IF propstats = <<>> THEN <<>>
    ELSE IF /\ \/ propstats[1].status = <<>>
               \/ Includes200(propstats[1].status)
            /\ propstats[1].prop # <<>>
         THEN propstats[1].prop
    ELSE SelectProp(Tail(propstats))

\* the WebDAVStat built from an href and the selected prop block
MakeStat(href, prop) ==
    LET normalizedPath == normalizePath(href)
    IN [filename |-> normalizedPath,
        basename |-> decodeSegment(BasenameSegment(normalizedPath)),
        lastmod |-> getTagContent(prop, "getlastmodified"),
        size |-> safeParseInteger(
                     IF getTagContent(prop, "getcontentlength") = <<>>
                     THEN <<"0">>
                     ELSE getTagContent(prop, "getcontentlength")),
        type |-> IF hasTag(getTagContent(prop, "resourcetype"), "collection")
                 THEN "directory" ELSE "file",
        etag |-> getTagContent(prop, "getetag"),
        mime |-> getTagContent(prop, "getcontenttype")]

RECURSIVE parseMultiStatus(_)
parseMultiStatus(xml) ==
    IF xml = <<>> THEN <<>>
    ELSE LET response1 == xml[1]
             prop == SelectProp(response1.propstats)
         IN (IF response1.href = <<>> \/ prop = <<>> THEN <<>>
             ELSE <<MakeStat(response1.href, prop)>>)
            \o parseMultiStatus(Tail(xml))
----------------------------------------------------------------------------
(* Operation Facade: arguments, responses and results *)

\* the decimal numeral of n >= 0, as one word
RECURSIVE DecimalWord(_)
DecimalWord(n) ==
    IF n < 10 THEN Digits[n + 1]
    ELSE DecimalWord(n \div 10) \o Digits[(n % 10) + 1]

\* Number.prototype.toString for an integer
NumberToString(n) ==
    IF n < 0 THEN "-" \o DecimalWord(0 - n) ELSE DecimalWord(n)

\* the depth argument of getDirectoryContents
DepthOmitted == [kind |-> "omitted", n |-> 0, s |-> ""]
DepthNumber(n) == [kind |-> "number", n |-> n, s |-> ""]
DepthNonFinite == [kind |-> "nonfinite", n |-> 0, s |-> ""]
DepthString(s) == [kind |-> "string", n |-> 0, s |-> s]

\* String.prototype.toLowerCase on the depth strings
DepthToLowerCase(s) == IF s \in {"infinity", "Infinity", "INFINITY"}
                       THEN "infinity" ELSE s

\* the search options; an absent option is the empty text
NoOptions == [query |-> <<>>, contentType |-> <<>>,
              modifiedAfter |-> <<>>, modifiedBefore |-> <<>>]

NoCall == [op |-> "none", path |-> <<>>, to |-> <<>>, overwrite |-> "omitted",
           depth |-> DepthOmitted, headers |-> <<>>, data |-> <<>>,
           options |-> NoOptions]

\* how a fetch settles: a Response, or a rejection of the transport
NoResponse == [settled |-> FALSE, failed |-> FALSE, status |-> 0,
               statusText |-> <<>>, body |-> <<>>, error |-> <<>>]
Response(status, statusText, body) ==
    [settled |-> TRUE, failed |-> FALSE, status |-> status,
     statusText |-> statusText, body |-> body, error |-> <<>>]
FetchFailure(message) ==
    [settled |-> TRUE, failed |-> TRUE, status |-> 0,
     statusText |-> <<>>, body |-> <<>>, error |-> message]

\* response.ok
Ok(resp) == 200 <= resp.status /\ resp.status <= 299

\* how the promise of an operation settles
Void == [t |-> "void"]
Null == [t |-> "null"]
Boolean(b) == [t |-> "boolean", b |-> b]
Pending == [kind |-> "pending", value |-> Void, message |-> <<>>]
Resolved(v) == [kind |-> "resolved", value |-> v, message |-> <<>>]
Rejected(message) == [kind |-> "rejected", value |-> Void, message |-> message]

\* the TypeError of new URL and the TypeError of a fetch that cannot complete
InvalidURLError == <<"Invalid", "URL">>
FetchFailedError == <<"fetch", "failed">>

\* the messages of the TypeError that the fetch of a platform rejects with
FetchFailedErrors ==
    { FetchFailedError,
      <<"Failed", "to", "fetch">>,
      <<"Load", "failed">>,
      <<"NetworkError", "when", "attempting", "to", "fetch", "resource.">> }

\* `${what}: ${response.status} ${response.statusText}`
FailureMessage(what, resp) ==
    what \o <<DecimalWord(resp.status)>> \o resp.statusText

FailedToList == <<"Failed", "to", "get", "directory", "contents:">>
FailedToStat == <<"Failed", "to", "stat", "resource:">>
FailedToGet == <<"Failed", "to", "get", "file", "contents:">>
FailedToWrite == <<"Failed", "to", "write", "file:">>
FailedToCreate == <<"Failed", "to", "create", "directory:">>
FailedToDelete == <<"Failed", "to", "delete", "resource:">>
FailedToMove == <<"Failed", "to", "move", "resource:">>
FailedToCopy == <<"Failed", "to", "copy", "resource:">>
FailedToSearch == <<"Failed", "to", "search:">>

\* the rejection of an operation whose fetch was rejected, else `then`
Await(resp, then) == IF resp.failed THEN Rejected(resp.error) ELSE then

\* stats.filter(keep)
RECURSIVE FilterOut(_, _)
FilterOut(stats, targetPath) ==
    IF stats = <<>> THEN <<>>
    ELSE (IF stats[1].filename # targetPath THEN <<stats[1]>> ELSE <<>>)
         \o FilterOut(Tail(stats), targetPath)

\* stats.find((stat) => stat.filename === targetPath), as an index or 0
FindIndex(stats, targetPath) ==
    IF \E i \in 1..Len(stats) : stats[i].filename = targetPath
    THEN CHOOSE i \in 1..Len(stats) :
             /\ stats[i].filename = targetPath
             /\ \A j \in 1..(i - 1) : stats[j].filename # targetPath
    ELSE 0

----------------------------------------------------------------------------
(* What each operation does once its fetch has settled *)

\* a listing that filters on the path as given, not on its canonical form
getDirectoryContentsThenRawPath(path, resp) ==
    Await(resp,
          IF ~Ok(resp) THEN Rejected(FailureMessage(FailedToList, resp))
          ELSE Resolved([t |-> "stats",
                         stats |-> FilterOut(parseMultiStatus(resp.body), path)]))

getDirectoryContentsThen(path, resp) ==
    Await(resp,
          IF ~Ok(resp) THEN Rejected(FailureMessage(FailedToList, resp))
          ELSE Resolved([t |-> "stats",
                         stats |-> FilterOut(parseMultiStatus(resp.body),
                                             normalizePath(path))]))

\* a stat without the fall-back to the first parsed entry
statThenStrict(path, resp) ==
    Await(resp,
          IF ~Ok(resp) THEN Rejected(FailureMessage(FailedToStat, resp))
          ELSE LET stats == parseMultiStatus(resp.body)
                   match == FindIndex(stats, normalizePath(path))
               IN IF match # 0
                  THEN Resolved([t |-> "stat", stat |-> stats[match]])
                  ELSE Rejected(<<"Resource", "not", "found:">> \o path))

statThen(path, resp) ==
    Await(resp,
          IF ~Ok(resp) THEN Rejected(FailureMessage(FailedToStat, resp))
          ELSE LET stats == parseMultiStatus(resp.body)
                   match == FindIndex(stats, normalizePath(path))
               IN IF match # 0
                  THEN Resolved([t |-> "stat", stat |-> stats[match]])
                  ELSE IF Len(stats) > 0
                       THEN Resolved([t |-> "stat", stat |-> stats[1]])
                  ELSE Rejected(<<"Resource", "not", "found:">> \o path))

\* /Resource not found/i.test(message), on the words of a message
TestResourceNotFound(message) ==
    \E i \in 1..(Len(message) - 2) :
        /\ message[i] \in {"Resource", "resource", "RESOURCE"}
        /\ message[i + 1] \in {"not", "Not", "NOT"}
        /\ message[i + 2] \in {"found", "Found", "FOUND", "found:"}

\* /Failed to stat resource:\s*404/.test(message); a status has three digits
TestStat404(message) ==
    \E i \in 1..(Len(message) - 4) :
        SubSeq(message, i, i + 4) = FailedToStat \o <<"404">>

\* a catch that answers false to every failure of stat
existsCatchAll(statOutcome) ==
    IF statOutcome.kind = "resolved" THEN Resolved(Boolean(TRUE))
    ELSE Resolved(Boolean(FALSE))

\* the try/catch of exists around the promise of stat
existsCatch(statOutcome) ==
    IF statOutcome.kind = "resolved" THEN Resolved(Boolean(TRUE))
    ELSE IF TestResourceNotFound(statOutcome.message) THEN Resolved(Boolean(FALSE))
    ELSE IF TestStat404(statOutcome.message) THEN Resolved(Boolean(FALSE))
    ELSE statOutcome

existsThen(path, resp) == existsCatch(statThen(path, resp))

getFileContentsThen(resp) ==
    Await(resp,
          IF ~Ok(resp) THEN Rejected(FailureMessage(FailedToGet, resp))
          ELSE Resolved([t |-> "buffer"]))

getFileContentsAsTextThen(resp) ==
    LET buffer == getFileContentsThen(resp)
    IN IF buffer.kind = "resolved" THEN Resolved([t |-> "text"]) ELSE buffer

putFileContentsThen(resp) ==
    Await(resp,
          IF ~Ok(resp) THEN Rejected(FailureMessage(FailedToWrite, resp))
          ELSE Resolved(Void))

\* a create-directory that takes every status below 400 for a success
createDirectoryThenLenient(resp) ==
    Await(resp,
          IF resp.status >= 400
          THEN Rejected(FailureMessage(FailedToCreate, resp))
          ELSE Resolved(Void))

createDirectoryThen(resp) ==
    Await(resp,
          IF ~Ok(resp) THEN Rejected(FailureMessage(FailedToCreate, resp))
          ELSE Resolved(Void))

\* a delete that does not set the 404 apart
deleteFileThenStrict(resp) ==
    Await(resp,
          IF ~Ok(resp) THEN Rejected(FailureMessage(FailedToDelete, resp))
          ELSE Resolved(Void))

deleteFileThen(resp) ==
    Await(resp,
          IF resp.status = 404 THEN Resolved(Void)
          ELSE IF ~Ok(resp) THEN Rejected(FailureMessage(FailedToDelete, resp))
          ELSE Resolved(Void))

moveFileThen(resp) ==
    Await(resp,
          IF ~Ok(resp) THEN Rejected(FailureMessage(FailedToMove, resp))
          ELSE Resolved(Void))

copyFileThen(resp) ==
    Await(resp,
          IF ~Ok(resp) THEN Rejected(FailureMessage(FailedToCopy, resp))
          ELSE Resolved(Void))

\* getAllTagContents(xml, "propstat"): the propstat blocks of the document
RECURSIVE AllPropstats(_)
AllPropstats(xml) ==
    IF xml = <<>> THEN <<>>
    ELSE xml[1].propstats \o AllPropstats(Tail(xml))

\* the loop of getQuota over the propstat blocks
RECURSIVE QuotaOf(_)
QuotaOf(propstats) ==
    IF propstats = <<>> THEN Null
    ELSE LET status == propstats[1].status
             prop == propstats[1].prop
             quotaAvailable == getTagContent(prop, "quota-available-bytes")
             quotaUsed == getTagContent(prop, "quota-used-bytes")
         IN IF \/ (status # <<>> /\ ~Includes200(status))
               \/ prop = <<>>
               \/ quotaAvailable = <<>>
               \/ quotaUsed = <<>>
            THEN QuotaOf(Tail(propstats))
            ELSE [t |-> "quota", used |-> safeParseInteger(quotaUsed),
                  available |-> safeParseInteger(quotaAvailable)]

getQuotaThen(resp) ==
    Await(resp,
          IF ~Ok(resp) THEN Resolved(Null)
          ELSE Resolved(QuotaOf(AllPropstats(resp.body))))

searchThen(resp) ==
    Await(resp,
          IF ~Ok(resp) THEN Rejected(FailureMessage(FailedToSearch, resp))
          ELSE Resolved([t |-> "stats", stats |-> parseMultiStatus(resp.body)]))

\* the continuation of the operation that is awaiting its fetch
Then(c, resp) ==
    CASE c.op = "getDirectoryContents" -> getDirectoryContentsThen(c.path, resp)
      [] c.op = "stat" -> statThen(c.path, resp)
      [] c.op = "exists" -> existsThen(c.path, resp)
      [] c.op = "getFileContents" -> getFileContentsThen(resp)
      [] c.op = "getFileContentsAsText" -> getFileContentsAsTextThen(resp)
      [] c.op = "putFileContents" -> putFileContentsThen(resp)
      [] c.op = "createDirectory" -> createDirectoryThen(resp)
      [] c.op = "deleteFile" -> deleteFileThen(resp)
      [] c.op = "moveFile" -> moveFileThen(resp)
      [] c.op = "copyFile" -> copyFileThen(resp)
      [] c.op = "getQuota" -> getQuotaThen(resp)
      [] c.op = "search" -> searchThen(resp)
----------------------------------------------------------------------------
(* The public operations.  Each takes the sets its arguments are drawn     *)
(* from; an operation runs up to its fetch, and resumes when the fetch     *)
(* settles.                                                                 *)

XmlContentType == <<"application/xml; charset=utf-8">>
PropfindBody == <<"<d:propfind>", "<d:resourcetype/>", "<d:getlastmodified/>",
                  "<d:getcontentlength/>", "<d:getetag/>", "<d:getcontenttype/>">>
QuotaBody == <<"<d:propfind>", "<d:quota-available-bytes/>", "<d:quota-used-bytes/>">>

Header(name, value) == [name |-> name, value |-> value]

\* the operation has called request(): its fetch is in flight, or new URL
\* threw and the promise is rejected with no request made
Invoke(c, req, thrown) ==
    /\ call' = c
    /\ response' = NoResponse
    /\ IF req.thrown
       THEN /\ sent' = <<>>
            /\ outcome' = thrown
            /\ pc' = "done"
       ELSE /\ sent' = <<req>>
            /\ outcome' = Pending
            /\ pc' = "awaiting"
    /\ UNCHANGED <<configVars, pathVars, parseVars>>

\* the Depth header of getDirectoryContents
depthValue(depth) ==
    CASE depth.kind = "omitted" -> NumberToString(1)
      [] depth.kind = "string" -> DepthToLowerCase(depth.s)
      [] depth.kind = "number" -> NumberToString(depth.n)
      [] depth.kind = "nonfinite" -> "infinity"

getDirectoryContents(in) ==
    /\ pc = "idle"
    /\ \E path \in in.paths, depth \in in.depths :
           Invoke([NoCall EXCEPT !.op = "getDirectoryContents", !.path = path,
                                 !.depth = depth],
                  request("PROPFIND", path,
                          <<Header("Content-Type", XmlContentType),
                            Header("Depth", <<depthValue(depth)>>)>>,
                          PropfindBody),
                  Rejected(InvalidURLError))

StatRequest(path) ==
    request("PROPFIND", path,
            <<Header("Content-Type", XmlContentType), Header("Depth", <<"0">>)>>,
            PropfindBody)

stat(in) ==
    /\ pc = "idle"
    /\ \E path \in in.paths :
           Invoke([NoCall EXCEPT !.op = "stat", !.path = path],
                  StatRequest(path), Rejected(InvalidURLError))

exists(in) ==
    /\ pc = "idle"
    /\ \E path \in in.paths :
           Invoke([NoCall EXCEPT !.op = "exists", !.path = path],
                  StatRequest(path), existsCatch(Rejected(InvalidURLError)))

getFileContents(in) ==
    /\ pc = "idle"
    /\ \E path \in in.paths :
           Invoke([NoCall EXCEPT !.op = "getFileContents", !.path = path],
                  request("GET", path, <<>>, <<>>), Rejected(InvalidURLError))

getFileContentsAsText(in) ==
    /\ pc = "idle"
    /\ \E path \in in.paths :
           Invoke([NoCall EXCEPT !.op = "getFileContentsAsText", !.path = path],
                  request("GET", path, <<>>, <<>>), Rejected(InvalidURLError))

putFileContents(in) ==
    /\ pc = "idle"
    /\ \E path \in in.paths, data \in in.payloads, headers \in in.callerHeaders :
           Invoke([NoCall EXCEPT !.op = "putFileContents", !.path = path,
                                 !.data = data, !.headers = headers],
                  request("PUT", path, headers, data), Rejected(InvalidURLError))

createDirectory(in) ==
    /\ pc = "idle"
    /\ \E path \in in.paths :
           Invoke([NoCall EXCEPT !.op = "createDirectory", !.path = path],
                  request("MKCOL", path, <<>>, <<>>), Rejected(InvalidURLError))

deleteFile(in) ==
    /\ pc = "idle"
    /\ \E path \in in.paths :
           Invoke([NoCall EXCEPT !.op = "deleteFile", !.path = path],
                  request("DELETE", path, <<>>, <<>>), Rejected(InvalidURLError))

\* the request of moveFile and copyFile: the destination is resolved first
TransferRequest(method, fromPath, toPath, overwrite) ==
    LET destination == resolveRequestURL(toPath)
    IN IF ~destination.ok THEN RequestThrows
       ELSE request(method, fromPath,
                    <<Header("Destination", URLToString(destination)),
                      Header("Overwrite",
                             IF overwrite = "true" THEN <<"T">> ELSE <<"F">>)>>,
                    <<>>)

moveFile(in) ==
    /\ pc = "idle"
    /\ \E fromPath \in in.paths, toPath \in in.paths,
          overwrite \in {"true", "false", "omitted"} :
           Invoke([NoCall EXCEPT !.op = "moveFile", !.path = fromPath,
                                 !.to = toPath, !.overwrite = overwrite],
                  TransferRequest("MOVE", fromPath, toPath, overwrite),
                  Rejected(InvalidURLError))

copyFile(in) ==
    /\ pc = "idle"
    /\ \E fromPath \in in.paths, toPath \in in.paths,
          overwrite \in {"true", "false", "omitted"} :
           Invoke([NoCall EXCEPT !.op = "copyFile", !.path = fromPath,
                                 !.to = toPath, !.overwrite = overwrite],
                  TransferRequest("COPY", fromPath, toPath, overwrite),
                  Rejected(InvalidURLError))

\* getQuota(): the default path "/" is one of the paths
getQuota(in) ==
    /\ pc = "idle"
    /\ \E path \in in.paths :
           Invoke([NoCall EXCEPT !.op = "getQuota", !.path = path],
                  request("PROPFIND", path,
                          <<Header("Content-Type", XmlContentType),
                            Header("Depth", <<"0">>)>>,
                          QuotaBody),
                  Rejected(InvalidURLError))

\* escapeXml(value)
escapeXml(value) ==
    [i \in 1..Len(value) |->
        CASE value[i] = "&" -> "&amp;"
          [] value[i] = "<" -> "&lt;"
          [] value[i] = ">" -> "&gt;"
          [] value[i] = "\"" -> "&quot;"
          [] value[i] = "'" -> "&apos;"
          [] OTHER -> value[i]]

\* the body of a SEARCH request
SearchBody(path, options) ==
    LET clauses ==
            (IF options.query # <<>>
             THEN <<"<d:like>", "displayname", "%">>
                  \o escapeXml(options.query) \o <<"%">> ELSE <<>>)
            \o (IF options.contentType # <<>>
                THEN <<"<d:eq>", "getcontenttype">>
                     \o escapeXml(options.contentType) ELSE <<>>)
            \o (IF options.modifiedAfter # <<>>
                THEN <<"<d:gt>", "getlastmodified">>
                     \o escapeXml(options.modifiedAfter) ELSE <<>>)
            \o (IF options.modifiedBefore # <<>>
                THEN <<"<d:lt>", "getlastmodified">>
                     \o escapeXml(options.modifiedBefore) ELSE <<>>)
        scopePath == normalizePath(path)
        scopeHref == IF scopePath = <<Slash>> THEN scopePath
                     ELSE Append(scopePath, Slash)
    IN <<"<d:searchrequest>", "<d:scope>">> \o escapeXml(scopeHref)
       \o <<"infinity">>
       \o (IF clauses # <<>> THEN <<"<d:where>">> \o clauses ELSE <<>>)

search(in) ==
    /\ pc = "idle"
    /\ \E path \in in.paths, options \in in.searchOptions :
           Invoke([NoCall EXCEPT !.op = "search", !.path = path,
                                 !.options = options],
                  request("SEARCH", path,
                          <<Header("Content-Type", XmlContentType)>>,
                          SearchBody(path, options)),
                  Rejected(InvalidURLError))

\* the operations that read the text of a successful response
ReadsBody(op) == op \in {"getDirectoryContents", "stat", "exists", "getQuota",
                         "search"}

\* the fetch resolves with a response of the server; the operation resumes.
\* A body that the operation never reads is left out of the state.
FetchResolves(in) ==
    /\ pc = "awaiting"
    /\ \E status \in in.statuses, statusText \in in.statusTexts :
       \E body \in IF ReadsBody(call.op) /\ Ok(Response(status, statusText, <<>>))
                   THEN in.docs ELSE {<<>>} :
          /\ response' = Response(status, statusText, body)
          /\ outcome' = Then(call, Response(status, statusText, body))
    /\ pc' = "done"
    /\ UNCHANGED <<configVars, pathVars, parseVars, call, sent>>

\* the fetch is rejected: the request could not complete
FetchRejects ==
    /\ pc = "awaiting"
    /\ \E message \in FetchFailedErrors :
          /\ response' = FetchFailure(message)
          /\ outcome' = Then(call, FetchFailure(message))
    /\ pc' = "done"
    /\ UNCHANGED <<configVars, pathVars, parseVars, call, sent>>

\* the caller has its result; the client is ready for the next call
Return ==
    /\ pc = "done"
    /\ pc' = "idle"
    /\ call' = NoCall
    /\ sent' = <<>>
    /\ response' = NoResponse
    /\ outcome' = Pending
    /\ UNCHANGED <<configVars, pathVars, parseVars>>

Operations(in) ==
    \/ getDirectoryContents(in)
    \/ stat(in)
    \/ exists(in)
    \/ getFileContents(in)
    \/ getFileContentsAsText(in)
    \/ putFileContents(in)
    \/ createDirectory(in)
    \/ deleteFile(in)
    \/ moveFile(in)
    \/ copyFile(in)
    \/ getQuota(in)
    \/ search(in)

IdlePath ==
    /\ arg = <<>>
    /\ stage = "unused"
    /\ canon = <<>>
    /\ recanon = <<>>
    /\ forms = [relative |-> <<>>, leading |-> <<>>, absolute |-> <<>>]
    /\ reqURL = InvalidURL
    /\ targetCanon = <<>>

IdleOps ==
    /\ pc = "idle"
    /\ call = NoCall
    /\ sent = <<>>
    /\ response = NoResponse
    /\ outcome = Pending

IdleParse ==
    /\ parseInput = <<>>
    /\ parseDone = FALSE
    /\ parseOutput = <<>>

\* the client after its constructor
Constructed(baseURLs, credentials, headerObjects) ==
    /\ \E b \in baseURLs :
          /\ base = ConstructBase(b)
          /\ basePath = ConstructBasePath(ConstructBase(b))
    /\ authHeader \in credentials
    /\ customHeaders \in headerObjects

----------------------------------------------------------------------------
(* Spec: the operations against every response of the server *)

\* the response elements a document is made of
MaxResponses == 2

LastModified == <<"Tue, 21 May 2024 10:20:30 GMT">>
FileProp == << Element("resourcetype", <<>>),
               Element("getlastmodified", LastModified),
               Element("getcontentlength", <<"1", "2">>),
               Element("getcontenttype", <<"text/plain">>),
               Element("getetag", <<"\"abc\"">>) >>
DirProp == << Element("resourcetype",
                      <<Tag(<<"d", ":", "collection">>, "empty")>>),
              Element("getlastmodified", LastModified),
              Element("getcontentlength", <<"0">>) >>
QuotaProp == << Element("quota-available-bytes", <<"9">>),
                Element("quota-used-bytes", <<"1">>) >>

Status200 == <<"HTTP/1.1", "200", "OK">>
Status404 == <<"HTTP/1.1", "404", "Not", "Found">>
Propstat(status, prop) == [status |-> status, prop |-> prop]
ResponseElement(href, propstats) == [href |-> href, propstats |-> propstats]

ResponseElements ==
    { ResponseElement(<<Slash, "d", Slash>>, <<Propstat(Status200, DirProp)>>),
      ResponseElement(<<Slash, "d", Slash, "x">>,
                      <<Propstat(Status200, FileProp)>>),
      ResponseElement(<<Slash, "x">>,
                      <<Propstat(Status404, FileProp),
                        Propstat(<<>>, DirProp \o QuotaProp)>>),
      ResponseElement(<<"d">>, <<Propstat(Status200, FileProp)>>),
      ResponseElement(<<>>, <<Propstat(Status200, FileProp)>>),
      ResponseElement(<<Slash, "d", Slash, "x">>,
                      <<Propstat(Status404, FileProp),
                        Propstat(Status200, <<>>)>>) }

Documents == StringsUpTo(ResponseElements, MaxResponses)

OpPaths ==
    { <<>>, <<Slash>>, <<"x">>, <<Slash, "x">>, <<"d">>, <<"d", Slash, "x">>,
      <<Slash, "d", Slash, "x", Slash>>, <<Slash, Slash, "x">>,
      <<Slash, Slash, Slash>>,
      <<Scheme, Host, Slash, "d", Slash, "x">> }

OpInputs ==
    [ paths |-> OpPaths,
      depths |-> {DepthOmitted, DepthNumber(0), DepthString("infinity")},
      payloads |-> {<<"payload">>},
      callerHeaders |-> {<<>>},
      searchOptions |-> {NoOptions,
                         [NoOptions EXCEPT !.query = <<"a", "&", "b">>]},
      statuses |-> {200, 207, 299, 300, 404, 500},
      statusTexts |-> {<<>>, <<"Not", "Found">>, <<"Resource", "Not", "Found">>},
      docs |-> Documents ]

Init ==
    /\ Constructed(BaseURLs, {BasicAuth}, {<<>>})
    /\ IdlePath
    /\ IdleOps
    /\ IdleParse

Next ==
    \/ Operations(OpInputs)
    \/ FetchResolves(OpInputs)
    \/ FetchRejects
    \/ Return

Spec == Init /\ [][Next]_vars

----------------------------------------------------------------------------
(* SpecHeaders: the operations of clients configured with custom headers   *)
(* and credentials, against a server that answers with a bare status       *)

CustomHeaderObjects ==
    { <<>>,
      <<Header("X-Trace", <<"1">>)>>,
      <<Header("x-trace", <<"1">>)>>,
      <<Header("Authorization", <<"Bearer", "t">>)>>,
      <<Header("authorization", <<"Bearer", "t">>)>>,
      <<Header("Overwrite", <<"T">>)>>,
      <<Header("overwrite", <<"T">>)>>,
      <<Header("Destination", <<Scheme, "elsewhere", Slash>>)>>,
      <<Header("destination", <<Scheme, "elsewhere", Slash>>)>> }

CallerHeaderObjects ==
    { <<>>,
      <<Header("X-Trace", <<"2">>)>>,
      <<Header("Content-Type", <<"text/plain">>)>>,
      <<Header("Authorization", <<"Token", "u">>)>>,
      <<Header("authorization", <<"Token", "u">>)>> }

HeaderInputs ==
    [ paths |-> {<<"x">>, <<Slash, "x">>, <<Slash, Slash, Slash>>},
      depths |-> {DepthOmitted, DepthNumber(0), DepthNumber(2),
                  DepthNumber(0 - 1), DepthNonFinite,
                  DepthString("infinity"), DepthString("Infinity"),
                  DepthString("bogus")},
      payloads |-> {<<"payload">>},
      callerHeaders |-> CallerHeaderObjects,
      searchOptions |-> {NoOptions},
      statuses |-> {201, 404},
      statusTexts |-> {<<>>},
      docs |-> {<<>>} ]

InitHeaders ==
    /\ Constructed({<<Scheme, Host, Slash, "d">>}, {<<>>, BasicAuth},
                   CustomHeaderObjects)
    /\ IdlePath
    /\ IdleOps
    /\ IdleParse

NextHeaders ==
    \/ Operations(HeaderInputs)
    \/ FetchResolves(HeaderInputs)
    \/ FetchRejects
    \/ Return

SpecHeaders == InitHeaders /\ [][NextHeaders]_vars
----------------------------------------------------------------------------
(* SpecParse: parseMultiStatus, applied to every document of up to         *)
(* MaxResponses response elements drawn from ParseElements                 *)

\* href texts: empty, the root, directories, files, a relative one, one
\* whose last segment holds an encoded slash, one with a stray "%", an
\* absolute URL with an empty first segment, and a scheme-relative one
ParseHrefs ==
    { <<>>,
      <<Slash>>,
      <<Slash, "d", Slash>>,
      <<Slash, "d", Slash, "x">>,
      <<Slash, "x", Slash>>,
      <<"d">>,
      <<Slash, "d", Slash, "x", "%2F", "x">>,
      <<Slash, "x", "%", "x">>,
      <<Scheme, Host, Slash, Slash, "x">>,
      <<Slash, Slash, "x">> }

\* what a resourcetype element holds
ResourceTypes ==
    { <<>>,
      <<Tag(<<"d", ":", "collection">>, "empty")>>,
      <<Tag(<<"collection">>, "start"), Tag(<<"collection">>, "end")>>,
      <<Tag(<<"d", ":", "principal">>, "empty")>>,
      <<Tag(<<"c", ":", "calendar">>, "empty"),
        Tag(<<"d", ":", "collection">>, "empty")>>,
      <<Tag(<<"not", "collection">>, "empty")>>,
      <<Tag(<<"d", ":", "collection", "-x">>, "empty")>> }

\* what a getcontentlength element holds, character by character
ContentLengths ==
    { <<>>, <<"0">>, <<"1", "2">>, <<"-", "5">>, <<"+", "3">>, <<"x">>,
      <<"7", "x">>, <<"-">> }

\* prop blocks: every resourcetype, present or not, and every
\* getcontentlength, present or not
ParseProps ==
    { <<Element("getlastmodified", LastModified)>> }
    \cup { << Element("resourcetype", rt),
              Element("getlastmodified", LastModified),
              Element("getcontentlength", <<"1", "2">>) >> : rt \in ResourceTypes }
    \cup { << Element("resourcetype", <<>>),
              Element("getcontentlength", cl),
              Element("getetag", <<"\"abc\"">>) >> : cl \in ContentLengths }

StatusNoReason == <<"HTTP/1.1", "200">>

\* the propstat blocks of a response: none, one that succeeded, one that
\* did not, a failed one before one without a status, an empty prop block
\* before a full one, two that succeeded, one whose status has no reason
ParsePropstats ==
    { <<>>,
      <<Propstat(Status200, FileProp)>>,
      <<Propstat(Status404, FileProp)>>,
      <<Propstat(Status404, FileProp), Propstat(<<>>, DirProp)>>,
      <<Propstat(Status200, <<>>), Propstat(Status200, DirProp)>>,
      <<Propstat(Status200, DirProp), Propstat(Status200, FileProp)>>,
      <<Propstat(StatusNoReason, FileProp)>> }

ParseElements ==
    { ResponseElement(href, <<Propstat(Status200, FileProp)>>) :
          href \in ParseHrefs }
    \cup { ResponseElement(<<Slash, "d", Slash, "x">>,
                           <<Propstat(Status200, prop)>>) : prop \in ParseProps }
    \cup { ResponseElement(<<Slash, "d", Slash, "x">>, propstats) :
               propstats \in ParsePropstats }

ParseDocuments == StringsUpTo(ParseElements, MaxResponses)

InitParse ==
    /\ Constructed(BaseURLs, {<<>>}, {<<>>})
    /\ IdlePath
    /\ IdleOps
    /\ parseInput \in ParseDocuments
    /\ parseDone = FALSE
    /\ parseOutput = <<>>

CallParseMultiStatus ==
    /\ ~parseDone
    /\ parseOutput' = parseMultiStatus(parseInput)
    /\ parseDone' = TRUE
    /\ UNCHANGED <<configVars, pathVars, opVars, parseInput>>

NextParse == CallParseMultiStatus

SpecParse == InitParse /\ [][NextParse]_vars

----------------------------------------------------------------------------
(* The path helpers, applied to every path up to MaxLen characters *)

RelativePaths == StringsUpTo(Chars, MaxLen)
AbsolutePaths == {<<Scheme, Host>> \o s : s \in StringsUpTo(Chars, MaxLen)}
Paths == RelativePaths \cup AbsolutePaths

NoURL == InvalidURL
NoForms == [relative |-> <<>>, leading |-> <<>>, absolute |-> <<>>]

\* a base-relative resource a/b: two non-empty segments
IsTwoSegments(p) ==
    LET i == FirstSlash(p, 1)
    IN /\ 1 < i /\ i < Len(p)
       /\ FirstSlash(p, i + 1) = Len(p) + 1
       /\ p[1] # Scheme

InitPath ==
    /\ Constructed(BaseURLs, {<<>>}, {<<>>})
    /\ IdleOps
    /\ IdleParse
    /\ arg \in Paths
    /\ stage = "input"
    /\ canon = <<>>
    /\ recanon = <<>>
    /\ forms = NoForms
    /\ reqURL = NoURL
    /\ targetCanon = <<>>

CallNormalizePath ==
    /\ stage = "input"
    /\ canon' = normalizePath(arg)
    /\ stage' = "normalized"
    /\ UNCHANGED <<configVars, opVars, parseVars, arg, recanon, forms, reqURL, targetCanon>>

CallNormalizePathAgain ==
    /\ stage = "normalized"
    /\ recanon' = normalizePath(canon)
    /\ stage' = "renormalized"
    /\ UNCHANGED <<configVars, opVars, parseVars, arg, canon, forms, reqURL, targetCanon>>

\* "a/b/", "/a/b/" and <base>a/b, for arg = a/b
CallNormalizeForms ==
    /\ stage = "input"
    /\ IsTwoSegments(arg)
    /\ forms' = [relative |-> normalizePath(Append(arg, Slash)),
                 leading |-> normalizePath(<<Slash>> \o Append(arg, Slash)),
                 absolute |-> normalizePath(URLToString(base) \o arg)]
    /\ stage' = "forms"
    /\ UNCHANGED <<configVars, opVars, parseVars, arg, canon, recanon, reqURL, targetCanon>>

CallResolveRequestURL ==
    /\ stage = "input"
    /\ reqURL' = resolveRequestURL(arg)
    /\ stage' = "resolved"
    /\ UNCHANGED <<configVars, opVars, parseVars, arg, canon, recanon, forms, targetCanon>>

\* the canonical path of the URL that a request for arg is sent to, next
\* to the canonical path of arg
CallNormalizeRequestTarget ==
    /\ stage = "resolved"
    /\ reqURL.ok
    /\ canon' = normalizePath(arg)
    /\ targetCanon' = normalizePath(URLToString(reqURL))
    /\ stage' = "targeted"
    /\ UNCHANGED <<configVars, opVars, parseVars, arg, recanon, forms, reqURL>>

NextPath ==
    \/ CallNormalizePath
    \/ CallNormalizePathAgain
    \/ CallNormalizeForms
    \/ CallResolveRequestURL
    \/ CallNormalizeRequestTarget

SpecPath == InitPath /\ [][NextPath]_vars

----------------------------------------------------------------------------
(* C1 -- canonicalization is idempotent: for every base URL and every path  *)
(* P, normalizePath(normalizePath(P)) = normalizePath(P).                   *)
C1_Idempotent == stage = "renormalized" => recanon = canon

(* C2 -- for every base URL and resource a/b, "a/b/", "/a/b/" and the       *)
(* absolute URL <base>a/b all canonicalize to "/a/b".                       *)
C2_FormsAgree ==
    stage = "forms" =>
        /\ forms.relative = <<Slash>> \o arg
        /\ forms.leading = <<Slash>> \o arg
        /\ forms.absolute = <<Slash>> \o arg

(* C9 -- request-URL resolution of a path that is no absolute URI, leading  *)
(* slashes included, always resolves against the base: the URL it yields    *)
(* is on the base's host and its path starts with the base path.            *)
C9_ResolvesAgainstBase ==
    (stage = "resolved" /\ ~IsAbsoluteURI(arg) /\ reqURL.ok) =>
        /\ reqURL.host = base.host
        /\ StartsWith(reqURL.pathname, base.pathname)


----------------------------------------------------------------------------
(* Claims about the operations *)

\* the current call has had a response from the server
Responded == pc = "done" /\ response.settled /\ ~response.failed

\* the indices of the parsed entries that are not the queried path
OtherEntries(parsed, target) ==
    {i \in 1..Len(parsed) : parsed[i].filename # target}

\* the k-th smallest element of a set of indices
KthOf(indices, k) ==
    CHOOSE i \in indices : Cardinality({j \in indices : j < i}) = k - 1

(* C3 -- a listing never holds an entry whose canonical path is the         *)
(* canonical queried path, and holds every other parsed entry, in parsed    *)
(* order.                                                                   *)
C3_ListingExcludesSelf ==
    (Responded /\ call.op = "getDirectoryContents" /\ outcome.kind = "resolved") =>
        LET parsed == parseMultiStatus(response.body)
            target == normalizePath(call.path)
            others == OtherEntries(parsed, target)
            listed == outcome.value.stats
        IN /\ \A i \in 1..Len(listed) : listed[i].filename # target
           /\ Len(listed) = Cardinality(others)
           /\ \A k \in 1..Len(listed) : listed[k] = parsed[KthOf(others, k)]

\* a listing that dropped the queried path's own entry and kept another
C3_Witness ==
    /\ Responded /\ call.op = "getDirectoryContents"
    /\ outcome.kind = "resolved"
    /\ Len(outcome.value.stats) = 1
    /\ Len(parseMultiStatus(response.body)) = 2
    /\ parseMultiStatus(response.body)[1].filename = normalizePath(call.path)

\* the stat call has had a successful (2xx) response
StatResponded == Responded /\ call.op = "stat" /\ Ok(response)

NotFoundMessage(path) == <<"Resource", "not", "found:">> \o path

(* C4, as claimed -- stat fails with a not-found failure whenever a         *)
(* successful response holds no entry whose canonical path is the canonical *)
(* queried path, and a record it returns has that path.                     *)
C4_StatFailsWithoutMatch ==
    StatResponded =>
        LET parsed == parseMultiStatus(response.body)
            target == normalizePath(call.path)
        IN /\ (\A i \in 1..Len(parsed) : parsed[i].filename # target)
                  => outcome = Rejected(NotFoundMessage(call.path))
           /\ outcome.kind = "resolved"
                  => outcome.value.stat.filename = target

(* C4, amended -- stat fails with a not-found failure exactly when a        *)
(* successful response yields no parsed entry at all; otherwise it returns  *)
(* the first parsed entry whose canonical path is the canonical queried     *)
(* path, or, when no entry has that path, the first parsed entry.           *)
C4_StatFallsBackToFirst ==
    StatResponded =>
        LET parsed == parseMultiStatus(response.body)
            target == normalizePath(call.path)
            matching == {i \in 1..Len(parsed) : parsed[i].filename = target}
        IN /\ parsed = <<>> => outcome = Rejected(NotFoundMessage(call.path))
           /\ parsed # <<>> =>
                 /\ outcome.kind = "resolved"
                 /\ outcome.value.stat =
                        IF matching # {} THEN parsed[KthOf(matching, 1)]
                        ELSE parsed[1]

\* stat returned the record of another path: no entry matched
C4_Witness ==
    /\ StatResponded
    /\ outcome.kind = "resolved"
    /\ outcome.value.stat.filename # normalizePath(call.path)

(* C5 -- exists returns false on a 404; on every other non-success status,  *)
(* whatever the status text, it rejects with the stat failure holding that  *)
(* status; it never turns a transport failure into a boolean.               *)
C5_ExistsPropagates ==
    (pc = "done" /\ call.op = "exists" /\ response.settled) =>
        /\ (~response.failed /\ response.status = 404)
               => outcome = Resolved(Boolean(FALSE))
        /\ (~response.failed /\ ~Ok(response) /\ response.status # 404)
               => outcome = Rejected(FailureMessage(FailedToStat, response))
        /\ response.failed => outcome.kind = "rejected"

(* C6 -- deleteFile issues exactly one DELETE request; it resolves when the *)
(* server replies 404 or 2xx, and for every other status rejects with a     *)
(* failure naming the delete operation and the status.                      *)
C6_DeleteIdempotent ==
    call.op = "deleteFile" =>
        /\ Len(sent) <= 1
        /\ \A i \in 1..Len(sent) :
              /\ sent[i].method = "DELETE"
              /\ sent[i].url = URLToString(resolveRequestURL(call.path))
        /\ Responded =>
              /\ Len(sent) = 1
              /\ IF response.status = 404 \/ Ok(response)
                 THEN outcome = Resolved(Void)
                 ELSE outcome =
                          Rejected(FailedToDelete
                                   \o <<DecimalWord(response.status)>>
                                   \o response.statusText)

\* a delete of a missing resource: one request, a 404, success
C6_Witness ==
    /\ Responded /\ call.op = "deleteFile"
    /\ response.status = 404
    /\ Len(sent) = 1
    /\ outcome = Resolved(Void)

\* the words that name each operation in its failure
OperationWords(op) ==
    CASE op = "getDirectoryContents" -> <<"Failed", "to", "get", "directory", "contents:">>
      [] op = "stat" -> <<"Failed", "to", "stat", "resource:">>
      [] op = "getFileContents" -> <<"Failed", "to", "get", "file", "contents:">>
      [] op = "getFileContentsAsText" -> <<"Failed", "to", "get", "file", "contents:">>
      [] op = "putFileContents" -> <<"Failed", "to", "write", "file:">>
      [] op = "createDirectory" -> <<"Failed", "to", "create", "directory:">>
      [] op = "deleteFile" -> <<"Failed", "to", "delete", "resource:">>
      [] op = "moveFile" -> <<"Failed", "to", "move", "resource:">>
      [] op = "copyFile" -> <<"Failed", "to", "copy", "resource:">>
      [] op = "search" -> <<"Failed", "to", "search:">>

\* the failure carries the operation's name and the numeric status
CarriesOperationAndStatus ==
    /\ outcome.kind = "rejected"
    /\ StartsWith(outcome.message,
                  OperationWords(call.op) \o <<DecimalWord(response.status)>>)

UniformOperations ==
    { "getDirectoryContents", "stat", "getFileContents",
      "getFileContentsAsText", "putFileContents", "createDirectory",
      "moveFile", "copyFile", "search" }

(* C7, as claimed -- each of list, stat, read, read-as-text, write, create  *)
(* directory, move, copy, get quota and search rejects with a failure       *)
(* carrying the operation name and the numeric status whenever the status   *)
(* is outside 200-299.                                                      *)
C7_UniformErrorMapping ==
    (Responded /\ ~Ok(response)
               /\ call.op \in UniformOperations \cup {"getQuota"})
        => outcome.kind = "rejected"

(* C7, amended -- each of list, stat, read, read-as-text, write, create     *)
(* directory, move, copy and search rejects with a failure carrying the     *)
(* operation name and the numeric status whenever the status is outside     *)
(* 200-299, and so does delete for every such status but 404; get quota     *)
(* rejects on no status: outside 200-299 it resolves with no quota          *)
(* information; a 404 makes exists resolve false and delete resolve.        *)
C7_ErrorMappingButQuota ==
    (Responded /\ ~Ok(response)) =>
        /\ call.op \in UniformOperations => CarriesOperationAndStatus
        /\ call.op = "getQuota" => outcome = Resolved(Null)
        /\ (call.op = "deleteFile" /\ response.status # 404)
               => CarriesOperationAndStatus
        /\ (call.op = "deleteFile" /\ response.status = 404)
               => outcome = Resolved(Void)
        /\ (call.op = "exists" /\ response.status = 404)
               => outcome = Resolved(Boolean(FALSE))

\* a quota query answered with a server error resolves with no quota
C7_Witness ==
    /\ Responded /\ call.op = "getQuota"
    /\ response.status = 500
    /\ outcome = Resolved(Null)

----------------------------------------------------------------------------
(* Claims about the headers of a request *)

TransferSent == call.op \in {"moveFile", "copyFile"} /\ sent # <<>>

(* C8 -- moveFile and copyFile send one request to the resolved URL of the  *)
(* source, whose Destination header is the resolved URL of the target and   *)
(* whose Overwrite header is exactly "T" or "F" by the overwrite flag,      *)
(* whatever custom headers the client is configured with.                   *)
C8_TransferHeaders ==
    TransferSent =>
        /\ Len(sent) = 1
        /\ sent[1].method = (IF call.op = "moveFile" THEN "MOVE" ELSE "COPY")
        /\ sent[1].url = URLToString(resolveRequestURL(call.path))
        /\ HeadersGet(sent[1].headers, "destination")
               = <<URLToString(resolveRequestURL(call.to))>>
        /\ HeadersGet(sent[1].headers, "overwrite")
               = <<IF call.overwrite = "true" THEN <<"T">> ELSE <<"F">>>>

\* an Authorization header, in any case, among the entries of an object
SetsAuthorization(object) ==
    \E i \in 1..Len(object) : LowerName(object[i].name) = "authorization"

(* C10 -- a header passed for the call overrides the custom header of the   *)
(* same name, and the computed basic-auth value is on the request only when *)
(* neither the call nor the custom headers set an Authorization header,     *)
(* header names being case-insensitive.                                     *)
C10_HeaderPrecedence ==
    (call.op = "putFileContents" /\ sent # <<>>) =>
        LET carried == HeadersGet(sent[1].headers, "authorization")
        IN /\ \A i \in 1..Len(call.headers) :
                  HeadersGet(sent[1].headers, LowerName(call.headers[i].name))
                      = <<call.headers[i].value>>
           /\ IF SetsAuthorization(call.headers) \/ SetsAuthorization(customHeaders)
              THEN \A i \in 1..Len(carried) : carried[i] # BasicAuth
              ELSE carried = (IF authHeader = <<>> THEN <<>> ELSE <<authHeader>>)

----------------------------------------------------------------------------
(* Claims about the parseDone records *)

\* a propstat whose status is absent or holds " 200 " and whose prop block
\* is not empty
Qualifying(propstat) ==
    /\ \/ propstat.status = <<>>
       \/ \E i \in 1..Len(propstat.status) :
             /\ propstat.status[i] = "200"
             /\ 1 < i /\ i < Len(propstat.status)
    /\ propstat.prop # <<>>

QualifyingPropstats(resp) ==
    {i \in 1..Len(resp.propstats) : Qualifying(resp.propstats[i])}

\* the response elements with a non-empty href and a qualifying propstat
QualifyingResponses(doc) ==
    {i \in 1..Len(doc) : doc[i].href # <<>> /\ QualifyingPropstats(doc[i]) # {}}

C12_SizeNonNegative ==
    parseDone => \A k \in 1..Len(parseOutput) : parseOutput[k].size >= 0

(* C13 -- every record's path starts with exactly one "/" and ends in "/"  *)
(* only when it is the root; its basename is "/" for the root and else     *)
(* holds no "/", also when the href's last segment holds an encoded slash. *)
C13_RecordInvariant ==
    parseDone =>
        \A k \in 1..Len(parseOutput) :
            LET path == parseOutput[k].filename
                basename == parseOutput[k].basename
            IN /\ path # <<>> /\ path[1] = Slash
               /\ Len(path) > 1 => path[2] # Slash /\ path[Len(path)] # Slash
               /\ IF path = <<Slash>> THEN basename = <<Slash>>
                  ELSE \A i \in 1..Len(basename) : basename[i] # Slash

\* an element named collection, with a namespace prefix or none,
\* self-closing or opening a content-bearing element
IsCollectionMarker(t) ==
    /\ t.form \in {"empty", "start"}
    /\ \/ t.name = <<"collection">>
       \/ /\ Len(t.name) = 3
          /\ t.name[2] = ":"
          /\ t.name[3] = "collection"

\* the resourcetype of the prop block a record is built from
ResourceTypeOf(resp) ==
    LET prop == resp.propstats[KthOf(QualifyingPropstats(resp), 1)].prop
        at == {i \in 1..Len(prop) : prop[i].tag = "resourcetype"}
    IN IF at = {} THEN <<>> ELSE prop[KthOf(at, 1)].content

(* C15 -- a record is a directory exactly when the resourcetype of its     *)
(* prop block holds a collection marker element, and a file otherwise: so  *)
(* with no resourcetype, an empty one, or one holding only other elements. *)
C15_DirectoryIffCollection ==
    parseDone =>
        \A k \in 1..Len(parseOutput) :
            LET resourceType ==
                    ResourceTypeOf(parseInput[KthOf(QualifyingResponses(parseInput), k)])
                marked == \E i \in 1..Len(resourceType) :
                              IsCollectionMarker(resourceType[i])
            IN parseOutput[k].type = (IF marked THEN "directory" ELSE "file")

----------------------------------------------------------------------------
(* Claims about the Depth header *)

\* the Depth header the claim gives a listing of the given depth
ClaimedListingDepth(depth) ==
    CASE depth.kind = "omitted" -> "1"
      [] depth.kind = "number" /\ depth.n >= 0 -> DecimalWord(depth.n)
      [] OTHER -> "infinity"

(* C14 -- the Depth header of a PROPFIND is "0" for stat and getQuota; for *)
(* getDirectoryContents it is the decimal string of a depth that is an     *)
(* integer of at least 0, "1" by default, and "infinity" for the depth     *)
(* "infinity" and for every other depth value: a negative integer, a       *)
(* non-finite number, any other string.                                    *)
C14_DepthHeader ==
    (sent # <<>> /\ call.op \in {"stat", "getQuota", "getDirectoryContents"}) =>
        /\ sent[1].method = "PROPFIND"
        /\ HeadersGet(sent[1].headers, "depth") =
               << << IF call.op = "getDirectoryContents"
                     THEN ClaimedListingDepth(call.depth)
                     ELSE "0" >> >>

----------------------------------------------------------------------------
(* Claims about the round trip of an operation *)

(* C16 -- every operation is one round trip: a call never has more than    *)
(* one request handed to fetch, it has exactly one while its fetch is in   *)
(* flight and once the fetch has settled, whatever the status; and when    *)
(* the fetch itself fails, the call rejects with that failure, exists and  *)
(* getQuota included.                                                      *)
C16_SingleRoundTrip ==
    /\ Len(sent) <= 1
    /\ (pc = "awaiting" \/ response.settled) => Len(sent) = 1
    /\ (pc = "done" /\ response.failed) => outcome = Rejected(response.error)

\* exists, after its one request failed in the transport, has rejected
C16_Witness ==
    /\ pc = "done" /\ call.op = "exists"
    /\ response.failed
    /\ Len(sent) = 1
    /\ outcome.kind = "rejected"

----------------------------------------------------------------------------
(* Claims about the request target *)

(* C17 -- for every base URL and every path that is no absolute URI, the   *)
(* canonical path of the URL the request is sent to is the canonical path  *)
(* of the path itself.                                                     *)
C17_TargetAgreesWithCanonical ==
    (stage = "targeted" /\ ~IsAbsoluteURI(arg)) => targetCanon = canon

=============================================================================
